---- MODULE Spec2Model ----
(***************************************************************************)
(* Pass-string generation and entropy scoring of passphrase.py             *)
(* (PassModeler: get_words, make_pass, set_entropy, reset).                *)
(*                                                                         *)
(* A Python str is modelled as a sequence of characters; a character is a  *)
(* one-character TLA+ string.  Two characters have no TLA+ literal and go  *)
(* by name: "bquote" is U+0060 (in string.punctuation) and "sup2" is       *)
(* U+00B2 SUPERSCRIPT TWO (a character for which str.isdigit() is True and *)
(* int() raises ValueError).  A pool (a Python str or list of units) is a  *)
(* sequence of units, each unit a str.                                     *)
(***************************************************************************)
EXTENDS Integers, Sequences, FiniteSets, TLC

\* ------------------------------------------------------------------------
\* Bounds of the model.
\* ------------------------------------------------------------------------

\* Largest number the user types into the "# words" entry.
MaxCount == 3

\* Number of distinct positions of the pseudo-random generator's tape.
RngMod == 2

\* ------------------------------------------------------------------------
\* Character data: string.ascii_letters, digits, punctuation, SYMBOLS.
\* ------------------------------------------------------------------------

ascii_lowercase == <<
    "a", "b", "c", "d", "e", "f", "g", "h", "i", "j", "k", "l", "m",
    "n", "o", "p", "q", "r", "s", "t", "u", "v", "w", "x", "y", "z" >>

ascii_uppercase == <<
    "A", "B", "C", "D", "E", "F", "G", "H", "I", "J", "K", "L", "M",
    "N", "O", "P", "Q", "R", "S", "T", "U", "V", "W", "X", "Y", "Z" >>

ascii_letters == ascii_lowercase \o ascii_uppercase

digits == << "0", "1", "2", "3", "4", "5", "6", "7", "8", "9" >>

punctuation == <<
    "!", "\"", "#", "$", "%", "&", "'", "(", ")", "*", "+", ",", "-", ".",
    "/", ":", ";", "<", "=", ">", "?", "@", "[", "\\", "]", "^", "_",
    "bquote", "{", "|", "}", "~" >>

SYMBOLS == << "~", "!", "@", "#", "$", "%", "^", "&", "*", "_", "-", "+", "=" >>

stubresult == <<
    "R", "e", "s", "u", "l", "t", " ", "c", "a", "n", " ", "b", "e", " ",
    "c", "o", "p", "i", "e", "d", " ", "a", "n", "d", " ", "p", "a", "s",
    "t", "e", "d", "." >>

\* ------------------------------------------------------------------------
\* Python str and list operations used by the modeler.
\* ------------------------------------------------------------------------

Range(s) == { s[i] : i \in 1..Len(s) }

\* A str iterated as a pool: the list of its one-character strings.
Units(s) == [ i \in 1..Len(s) |-> << s[i] >> ]

\* Characters str.strip() removes; the entries hold no other white space.
Whitespace == { " " }

\* str.strip()
RECURSIVE LStrip(_)
LStrip(s) ==
    IF s # << >> /\ Head(s) \in Whitespace THEN LStrip(Tail(s)) ELSE s

RECURSIVE RStrip(_)
RStrip(s) ==
    IF s # << >> /\ s[Len(s)] \in Whitespace
    THEN RStrip(SubSeq(s, 1, Len(s) - 1))
    ELSE s

Strip(s) == RStrip(LStrip(s))

\* The characters int() reads as decimal digits, those str.isdigit() accepts
\* (the Unicode property Digit, which "sup2" has too), and those
\* str.isalpha() accepts.
DecimalChars == Range(digits)

DigitChars == DecimalChars \cup { "sup2" }

AlphaChars == Range(ascii_letters)

\* str.isdigit()
IsDigit(s) == s # << >> /\ \A i \in 1..Len(s) : s[i] \in DigitChars

\* str.isalpha()
IsAlpha(s) == s # << >> /\ \A i \in 1..Len(s) : s[i] \in AlphaChars

\* The value of one decimal digit character.
DigitValue(c) == (CHOOSE i \in 1..Len(digits) : digits[i] = c) - 1

RECURSIVE DecimalValue(_)
DecimalValue(s) ==
    IF s = << >> THEN 0
    ELSE 10 * DecimalValue(SubSeq(s, 1, Len(s) - 1)) + DigitValue(s[Len(s)])

\* int(text): surrounding white space is ignored and the rest must be decimal
\* digits; anything else raises ValueError.
IntOf(s) ==
    LET t == Strip(s)
    IN  IF t # << >> /\ \A i \in 1..Len(t) : t[i] \in DecimalChars
        THEN [raised |-> FALSE, value |-> DecimalValue(t)]
        ELSE [raised |-> TRUE, value |-> 0]

\* str(n) for the numbers the user types.
RECURSIVE Str(_)
Str(n) == IF n < 10 THEN << digits[n + 1] >> ELSE Str(n \div 10) \o << digits[(n % 10) + 1] >>

\* sub in s (substring test); the empty string is in every string.
Contains(sub, s) ==
    \E i \in 0..(Len(s) - Len(sub)) : \A j \in 1..Len(sub) : s[i + j] = sub[j]

\* str.split(): the white-space delimited tokens of s.
RECURSIVE Split(_)
Split(s) ==
    LET t == LStrip(s)
    IN  IF t = << >> THEN << >>
        ELSE LET n == IF \E i \in 1..Len(t) : t[i] \in Whitespace
                      THEN (CHOOSE i \in 1..Len(t) :
                               /\ t[i] \in Whitespace
                               /\ \A j \in 1..(i - 1) : t[j] \notin Whitespace) - 1
                      ELSE Len(t)
             IN  << SubSeq(t, 1, n) >> \o Split(SubSeq(t, n + 1, Len(t)))

\* list(set(tokens)): each token once.  Python leaves the order of a set
\* unspecified; the model keeps the order of first occurrence.
RECURSIVE Dedup(_)
Dedup(tokens) ==
    IF tokens = << >> THEN << >>
    ELSE LET init == Dedup(SubSeq(tokens, 1, Len(tokens) - 1))
             last == tokens[Len(tokens)]
         IN  IF last \in Range(init) THEN init ELSE Append(init, last)

\* [u for u in pool if test(u)]
Filter(pool, Test(_)) == SelectSeq(pool, Test)

\* "".join(units)
RECURSIVE Join(_)
Join(units) == IF units = << >> THEN << >> ELSE Head(units) \o Join(Tail(units))

\* F(v), with v evaluated once, before F: a Python call evaluates its
\* argument once.
Call(F(_), v) == CHOOSE y \in { F(x) : x \in { v } } : TRUE

\* ------------------------------------------------------------------------
\* Word sources.  Each is the list read_text().split() returns for that
\* file: duplicates and tokens that are not purely alphabetic included.
\* ------------------------------------------------------------------------

SystemDictionaryTokens == <<
    <<"y", "e", "s">>, <<"t", "r", "e", "e", "s">>, <<"e", "y", "e">>,
    <<"s", "a", "y", "s">>, <<"c", "a", "n">>, <<"t", "i", "p">>,
    <<"m", "a", "p">>, <<"o", "a", "k">>, <<"f", "i", "g">>,
    <<"b", "u", "d">>, <<"u", "n", "k", "n", "o", "w", "n">>,
    <<"d", "o", "g", "'", "s">>, <<"y", "e", "s">> >>

EffTokens == <<
    <<"e", "y", "e">>, <<"e", "s", "s", "e", "n", "c", "e">>,
    <<"i", "t", "'", "s">>, <<"e", "y", "e">>, <<"y", "e", "s">> >>

\* The options of the choose_wordlist Combobox, the first one the default.
WordlistChoices == << "System dictionary", "EFF long wordlist" >>

\* Path(share.word_files[choice]).read_text(encoding='utf-8').split()
word_files(choice) ==
    IF choice = "System dictionary" THEN SystemDictionaryTokens ELSE EffTokens

\* ------------------------------------------------------------------------
\* The class-level pools of PassModeler and the shared display variables.
\* ------------------------------------------------------------------------

\* PassModeler.strdata as the class statement sets it, and as reset() restores
\* its five pools.
BaseStrdata == [
    symbols    |-> Units(SYMBOLS),
    digi       |-> Units(digits),
    caps       |-> Units(ascii_uppercase),
    all_char   |-> Units(ascii_letters \o digits \o punctuation),
    some_char  |-> Units(ascii_letters \o digits \o SYMBOLS),
    all_unused |-> << >> ]

\* share.tkdata after PassViewer.__init__ has set the stub results.
InitTkdata == [
    available    |-> 0,
    pp_raw_len   |-> 0, pp_plus_len  |-> 0, pp_short_len |-> 0,
    pp_raw_h     |-> 0, pp_plus_h    |-> 0, pp_short_h   |-> 0,
    phrase_raw   |-> stubresult,
    phrase_plus  |-> stubresult,
    phrase_short |-> stubresult,
    pc_any_len   |-> 0, pc_some_len  |-> 0,
    pc_any_h     |-> 0, pc_some_h    |-> 0,
    pc_any       |-> stubresult,
    pc_some      |-> stubresult,
    excluded     |-> << >> ]

\* ------------------------------------------------------------------------
\* PassModeler.get_words and PassModeler.reset, as functions of the program
\* state m (a record of the variables below except the history variables).
\* ------------------------------------------------------------------------

\* A faulty variant of LongList that keeps every occurrence of a word, as
\* it would without set(): C21 does not hold of it.
LongListOfAll(tokens) == Filter(tokens, IsAlpha)

\* word for word in all_words if word.isalpha()
LongList(tokens) == Filter(Dedup(tokens), IsAlpha)

\* word for word in longlist if len(word) < 7
IsShort(word) == Len(word) < 7

ShortList(longlist) == Filter(longlist, IsShort)

\* What get_words() makes of each word source: word_list and short_list.
Loaded ==
    [ selection \in Range(WordlistChoices) |->
        [ word_list  |-> LongList(word_files(selection)),
          short_list |-> ShortList(LongList(word_files(selection))) ] ]

\* A faulty variant of get_words that leaves the "Currently excluded"
\* display as it was: C27 does not hold of it.
get_wordsKeepExcluded(m) ==
    LET keep   == Contains(m.tkdata.phrase_raw, stubresult)
        loaded == Loaded[m.choose_wordlist]
    IN  [ m EXCEPT
            !.tkdata = [ @ EXCEPT
                !.pp_raw_h = 0, !.pp_plus_h = 0, !.pp_short_h = 0,
                !.pp_raw_len = 0, !.pp_plus_len = 0, !.pp_short_len = 0,
                !.phrase_raw = IF keep THEN @ ELSE << >>,
                !.phrase_plus = IF keep THEN @ ELSE << >>,
                !.phrase_short = IF keep THEN @ ELSE << >>,
                !.available = Len(loaded.word_list) ],
            !.exclude_entry = << >>,
            !.strdata = [ @ EXCEPT !.all_unused = << >> ],
            !.listdata = loaded,
            !.longlist_len = Len(loaded.word_list) ]

get_words(m) ==
    LET keep   == Contains(m.tkdata.phrase_raw, stubresult)
        loaded == Loaded[m.choose_wordlist]
    IN  [ m EXCEPT
            !.tkdata = [ @ EXCEPT
                !.pp_raw_h = 0, !.pp_plus_h = 0, !.pp_short_h = 0,
                !.pp_raw_len = 0, !.pp_plus_len = 0, !.pp_short_len = 0,
                !.excluded = << >>,
                !.phrase_raw = IF keep THEN @ ELSE << >>,
                !.phrase_plus = IF keep THEN @ ELSE << >>,
                !.phrase_short = IF keep THEN @ ELSE << >>,
                !.available = Len(loaded.word_list) ],
            !.exclude_entry = << >>,
            !.strdata = [ @ EXCEPT !.all_unused = << >> ],
            !.listdata = loaded,
            !.longlist_len = Len(loaded.word_list) ]

\* A faulty variant of reset that clears the display and leaves the seven
\* pools as they are: C14 does not hold of it.
resetDisplayOnly(m) ==
    [ m EXCEPT
        !.tkdata = [ @ EXCEPT
            !.pc_any = << >>, !.pc_any_len = 0, !.pc_any_h = 0,
            !.pc_some = << >>, !.pc_some_len = 0, !.pc_some_h = 0,
            !.excluded = << >> ],
        !.exclude_entry = << >>,
        !.strdata = [ @ EXCEPT !.all_unused = << >> ] ]

\* A faulty variant of reset that shows the number of words counted before
\* the word list is reloaded: C20 does not hold of it.
resetStaleCount(m) ==
    Call(LAMBDA reloaded :
           [ reloaded EXCEPT !.tkdata.available = m.longlist_len ],
         Call(get_words,
              [ m EXCEPT
                 !.tkdata = [ @ EXCEPT
                     !.pc_any = << >>, !.pc_any_len = 0, !.pc_any_h = 0,
                     !.pc_some = << >>, !.pc_some_len = 0, !.pc_some_h = 0,
                     !.excluded = << >> ],
                 !.exclude_entry = << >>,
                 !.strdata = BaseStrdata ]))

reset(m) ==
    Call(get_words,
         [ m EXCEPT
            !.tkdata = [ @ EXCEPT
                !.pc_any = << >>, !.pc_any_len = 0, !.pc_any_h = 0,
                !.pc_some = << >>, !.pc_some_len = 0, !.pc_some_h = 0,
                !.excluded = << >> ],
            !.exclude_entry = << >>,
            !.strdata = BaseStrdata ])

\* ------------------------------------------------------------------------
\* VERY_RANDOM: a seeded pseudo-random generator.  Its state is a position
\* on a cyclic tape of numbers; each choice() reads the number at the
\* position and moves one position on.  The seed, random.random(), sets the
\* first position.
\* ------------------------------------------------------------------------

RngNext(r) == (r + 1) % RngMod

\* The number on the tape at position r.
RngRead(r) == 4 * r

\* VERY_RANDOM.choice(pool), for a pool that is not empty.
choice(pool, r) == pool[(RngRead(r) % Len(pool)) + 1]

\* A faulty variant of JoinChoices that draws one unit more than asked, as
\* range(count + 1) would: C16 does not hold of it.
RECURSIVE JoinChoicesOneMore(_, _, _)
JoinChoicesOneMore(pool, count, r) ==
    IF pool = << >> THEN [raised |-> TRUE, text |-> << >>, rng |-> r]
    ELSE IF count = 0
    THEN [raised |-> FALSE, text |-> choice(pool, r), rng |-> RngNext(r)]
    ELSE LET rest == JoinChoicesOneMore(pool, count - 1, RngNext(r))
         IN  [rest EXCEPT !.text = choice(pool, r) \o @]

\* "".join(VERY_RANDOM.choice(pool) for _ in range(count)); choice() raises
\* IndexError on an empty pool, and is not called at all when count is 0.
RECURSIVE JoinChoices(_, _, _)
JoinChoices(pool, count, r) ==
    IF count = 0 THEN [raised |-> FALSE, text |-> << >>, rng |-> r]
    ELSE IF pool = << >> THEN [raised |-> TRUE, text |-> << >>, rng |-> r]
    ELSE LET rest == JoinChoices(pool, count - 1, RngNext(r))
         IN  [rest EXCEPT !.text = choice(pool, r) \o @]

\* The joins of make_pass in the order of the code, each a record of its
\* pool and count; the first choice() from an empty pool ends them.
RECURSIVE JoinEach(_, _)
JoinEach(requests, r) ==
    IF requests = << >> THEN [raised |-> FALSE, texts |-> << >>, rng |-> r]
    ELSE Call(LAMBDA first :
                IF first.raised
                THEN [raised |-> TRUE, texts |-> << >>, rng |-> first.rng]
                ELSE Call(LAMBDA rest : [rest EXCEPT !.texts = << first.text >> \o @],
                          JoinEach(Tail(requests), first.rng)),
              JoinChoices(requests[1].pool, requests[1].count, r))

\* ------------------------------------------------------------------------
\* PassModeler.set_entropy
\* ------------------------------------------------------------------------

RECURSIVE FloorLog2(_)
FloorLog2(x) == IF x < 2 THEN 0 ELSE 1 + FloorLog2(x \div 2)

RECURSIVE Power(_, _)
Power(n, l) == IF l = 0 THEN 1 ELSE n * Power(n, l - 1)

\* The pairs <<N, L>>, for N up to 94 and L up to 12, at which the double
\* precision value of L * log(N) / log(2) lies just below the integer it
\* equals mathematically, so that int() truncates to one less:
\* 3 * log(8) / log(2) evaluates to 8.999999999999998.
FloatShortfall ==
    { <<8, 3>>, <<8, 6>>, <<8, 9>>, <<8, 12>>,
      <<64, 3>>, <<64, 6>>, <<64, 9>>, <<64, 12>> }

\* A faulty variant of EntropyBits, with the sign of the logarithm lost as in
\* log(1 / N): exclusions raise it, so C9 does not hold of it.
EntropyBitsOfInverse(l, n) == 0 - FloorLog2(Power(n, l))

\* N to the power L can exceed the integers at hand (94 to the power 10 has
\* 66 bits), so it is held as its digits to the base BigBase, the lowest
\* first.  BigTimes is the digits of ds * n + carry.
BigBase == 32768
BigBaseBits == 15

RECURSIVE BigTimes(_, _, _)
BigTimes(ds, n, carry) ==
    IF ds = << >> THEN (IF carry = 0 THEN << >> ELSE << carry >>)
    ELSE Call(LAMBDA v :
                << v % BigBase >> \o BigTimes(Tail(ds), n, v \div BigBase),
              Head(ds) * n + carry)

RECURSIVE BigPower(_, _)
BigPower(n, l) ==
    IF l = 0 THEN << 1 >>
    ELSE Call(LAMBDA ds : BigTimes(ds, n, 0), BigPower(n, l - 1))

\* floor(log2(x)) of the positive number with digits ds.
BigFloorLog2(ds) == BigBaseBits * (Len(ds) - 1) + FloorLog2(ds[Len(ds)])

\* int(L * log(N) / log(2)) for N >= 1; log(0) raises ValueError.
EntropyBits(l, n) ==
    Call(BigFloorLog2, BigPower(n, l))
      - (IF <<n, l>> \in FloatShortfall THEN 1 ELSE 0)

\* A faulty variant of Add3Bits that truncates each of the three terms before
\* adding them: C22 does not hold of it.
Add3BitsEachTruncated(ns, nd, nc) == FloorLog2(ns) + FloorLog2(nc) + FloorLog2(nd)

\* int(h_symbol + h_cap + h_digit), each h being -log(1 / len(pool), 2), for
\* pools that are not empty (1 / 0 raises ZeroDivisionError).  For every
\* combination of sizes up to 13, 10 and 26 the double precision sum
\* truncates to the floor of the exact value.
Add3Bits(ns, nd, nc) == FloorLog2(ns * nc * nd)

\* The state after set_entropy(numwords, numchars), and the exception that
\* ended it, if any: the assignments before the raising statement stand.
set_entropy(m, numwords, numchars) ==
    LET sd     == m.strdata
        ld     == m.listdata
        h_add3 == Add3Bits(Len(sd.symbols), Len(sd.digi), Len(sd.caps))
        raw_h  == EntropyBits(numwords, Len(ld.word_list))
        h_some == EntropyBits(numwords, Len(ld.short_list))
        m1 == [m  EXCEPT !.tkdata.pp_raw_h = raw_h]
        m2 == [m1 EXCEPT !.tkdata.pp_plus_h = m1.tkdata.pp_raw_h + h_add3]
        m3 == [m2 EXCEPT !.tkdata.pp_short_h = h_some + h_add3]
        m4 == [m3 EXCEPT !.tkdata.pc_any_h =
                           EntropyBits(numchars, Len(sd.all_char))]
        m5 == [m4 EXCEPT !.tkdata.pc_some_h =
                           EntropyBits(numchars, Len(sd.some_char))]
    IN  IF Len(sd.symbols) = 0 \/ Len(sd.digi) = 0 \/ Len(sd.caps) = 0
        THEN [m |-> m, raised |-> "ZeroDivisionError"]
        ELSE IF Len(ld.word_list) = 0 THEN [m |-> m, raised |-> "ValueError"]
        ELSE IF Len(ld.short_list) = 0 THEN [m |-> m2, raised |-> "ValueError"]
        ELSE IF Len(sd.all_char) = 0 THEN [m |-> m3, raised |-> "ValueError"]
        ELSE IF Len(sd.some_char) = 0 THEN [m |-> m4, raised |-> "ValueError"]
        ELSE [m |-> m5, raised |-> "none"]

\* ------------------------------------------------------------------------
\* PassModeler.make_pass
\* ------------------------------------------------------------------------

\* The "# words" entry after its correction.
CorrectNumwords(entry) ==
    LET numwords == Strip(entry)
    IN  IF numwords = << >> THEN << "0" >> \o entry
        ELSE IF ~IsDigit(numwords) THEN << "0" >>
        ELSE entry

\* The "# characters" entry after its correction (two ifs, no elif).
CorrectNumchars(entry) ==
    LET numchars == Strip(entry)
        inserted == IF numchars = << >> THEN << "0" >> \o entry ELSE entry
    IN  IF ~IsDigit(numchars) THEN << "0" >> ELSE inserted

\* A faulty variant of NeedsReset that misses the entry with a space: C3
\* does not hold of it.
NeedsResetWhenEmpty(unused) == Len(unused) = 0

\* ' ' in unused or len(unused) == 0
NeedsReset(unused) == Contains(<< " " >>, unused) \/ Len(unused) = 0

\* A faulty variant of Exclude that drops only the units equal to the
\* fragment: C1 does not hold of it.
ExcludeEqual(pool, unused) ==
    LET Keep(u) == u # unused
    IN  Filter(pool, Keep)

\* A faulty variant of Exclude that drops only the first unit containing the
\* fragment: C29 does not hold of it.
ExcludeFirst(pool, unused) ==
    LET hits == { i \in 1..Len(pool) : Contains(unused, pool[i]) }
        k    == CHOOSE i \in hits : \A j \in hits : i <= j
    IN  IF hits = { } THEN pool
        ELSE SubSeq(pool, 1, k - 1) \o SubSeq(pool, k + 1, Len(pool))

\* [u for u in pool if unused not in u]
Exclude(pool, unused) ==
    LET Keep(u) == ~Contains(unused, u)
    IN  Filter(pool, Keep)

\* The text the "Currently excluded" display gets.
AllUnused(all_unused, unused) ==
    IF ~Contains(unused, all_unused) /\ ~Contains(<< " " >>, unused)
    THEN all_unused \o << " " >> \o unused
    ELSE all_unused

\* A faulty variant of ExcludeUnused that filters the unfiltered pools
\* instead of the current ones, forgetting earlier exclusions: C2 does not
\* hold of it.
ExcludeUnusedAfresh(m, unused) ==
    LET Gone(u) == Contains(unused, u)
        Keep(u) == ~Gone(u)
        word_list == Filter(Loaded[m.choose_wordlist].word_list, Keep)
        shown ==
            IF ~Contains(unused, m.strdata.all_unused)
                 /\ ~Contains(<< " " >>, unused)
            THEN m.strdata.all_unused \o << " " >> \o unused
            ELSE m.strdata.all_unused
    IN  [ m EXCEPT
            !.listdata =
                [ word_list  |-> word_list,
                  short_list |-> Filter(Loaded[m.choose_wordlist].short_list, Keep) ],
            !.strdata = [ symbols    |-> Filter(BaseStrdata.symbols, Keep),
                          digi       |-> Filter(BaseStrdata.digi, Keep),
                          caps       |-> Filter(BaseStrdata.caps, Keep),
                          all_char   |-> Filter(BaseStrdata.all_char, Keep),
                          some_char  |-> Filter(BaseStrdata.some_char, Keep),
                          all_unused |-> shown ],
            !.longlist_len = Len(word_list),
            !.tkdata = [ @ EXCEPT
                !.available = Len(word_list),
                !.excluded = IF shown # m.strdata.all_unused THEN shown ELSE @ ] ]

\* A faulty variant of ExcludeUnused that counts the available words before
\* it filters them: C18 does not hold of it.
ExcludeUnusedCountFirst(m, unused) ==
    LET shown == AllUnused(m.strdata.all_unused, unused)
    IN  [ m EXCEPT
            !.listdata = [ word_list  |-> Exclude(@.word_list, unused),
                           short_list |-> Exclude(@.short_list, unused) ],
            !.strdata = [ symbols    |-> Exclude(@.symbols, unused),
                          digi       |-> Exclude(@.digi, unused),
                          caps       |-> Exclude(@.caps, unused),
                          all_char   |-> Exclude(@.all_char, unused),
                          some_char  |-> Exclude(@.some_char, unused),
                          all_unused |-> shown ],
            !.longlist_len = Len(m.listdata.word_list),
            !.tkdata = [ @ EXCEPT
                !.available = Len(m.listdata.word_list),
                !.excluded = IF shown # m.strdata.all_unused THEN shown ELSE @ ] ]

\* A faulty variant of ExcludeUnused that filters word_list and leaves
\* short_list as it was: C28 does not hold of it.
ExcludeUnusedLongOnly(m, unused) ==
    LET word_list == Exclude(m.listdata.word_list, unused)
        shown     == AllUnused(m.strdata.all_unused, unused)
    IN  [ m EXCEPT
            !.listdata = [ word_list  |-> word_list,
                           short_list |-> m.listdata.short_list ],
            !.strdata = [ symbols    |-> Exclude(@.symbols, unused),
                          digi       |-> Exclude(@.digi, unused),
                          caps       |-> Exclude(@.caps, unused),
                          all_char   |-> Exclude(@.all_char, unused),
                          some_char  |-> Exclude(@.some_char, unused),
                          all_unused |-> shown ],
            !.longlist_len = Len(word_list),
            !.tkdata = [ @ EXCEPT
                !.available = Len(word_list),
                !.excluded = IF shown # m.strdata.all_unused THEN shown ELSE @ ] ]

\* The body of "if len(unused) > 0:".
ExcludeUnused(m, unused) ==
    LET word_list == Exclude(m.listdata.word_list, unused)
        shown     == AllUnused(m.strdata.all_unused, unused)
    IN  [ m EXCEPT
            !.listdata = [ word_list  |-> word_list,
                           short_list |-> Exclude(m.listdata.short_list, unused) ],
            !.strdata = [ symbols    |-> Exclude(@.symbols, unused),
                          digi       |-> Exclude(@.digi, unused),
                          caps       |-> Exclude(@.caps, unused),
                          all_char   |-> Exclude(@.all_char, unused),
                          some_char  |-> Exclude(@.some_char, unused),
                          all_unused |-> shown ],
            !.longlist_len = Len(word_list),
            !.tkdata = [ @ EXCEPT
                !.available = Len(word_list),
                !.excluded = IF shown # m.strdata.all_unused THEN shown ELSE @ ] ]

\* A faulty variant of SetPassStrings that appends the digit before the
\* symbol: C15 does not hold of it.
SetPassStringsDigitFirst(m, texts) ==
    LET passphrase  == texts[1]
        shortphrase == texts[2]
        passcode1   == texts[3]
        passcode2   == texts[4]
        addsymbol   == texts[5]
        addnum      == texts[6]
        addcaps     == texts[7]
        phraseplus  == passphrase \o addnum \o addsymbol \o addcaps
        phraseshort == shortphrase \o addnum \o addsymbol \o addcaps
    IN  [ m EXCEPT
            !.tkdata = [ @ EXCEPT
                !.phrase_raw = passphrase,
                !.pp_raw_len = Len(passphrase),
                !.phrase_plus = phraseplus,
                !.pp_plus_len = Len(phraseplus),
                !.phrase_short = phraseshort,
                !.pp_short_len = Len(phraseshort),
                !.pc_any = passcode1,
                !.pc_any_len = Len(passcode1),
                !.pc_some = passcode2,
                !.pc_some_len = Len(passcode2) ] ]

\* "Set all pass-strings for display": the ten tkdata assignments, given
\* the seven joined texts.
SetPassStrings(m, texts) ==
    LET passphrase  == texts[1]
        shortphrase == texts[2]
        passcode1   == texts[3]
        passcode2   == texts[4]
        addsymbol   == texts[5]
        addnum      == texts[6]
        addcaps     == texts[7]
        phraseplus  == passphrase \o addsymbol \o addnum \o addcaps
        phraseshort == shortphrase \o addsymbol \o addnum \o addcaps
    IN  [ m EXCEPT
            !.tkdata = [ @ EXCEPT
                !.phrase_raw = passphrase,
                !.pp_raw_len = Len(passphrase),
                !.phrase_plus = phraseplus,
                !.pp_plus_len = Len(phraseplus),
                !.phrase_short = phraseshort,
                !.pp_short_len = Len(phraseshort),
                !.pc_any = passcode1,
                !.pc_any_len = Len(passcode1),
                !.pc_some = passcode2,
                !.pc_some_len = Len(passcode2) ] ]

\* A faulty variant of BuildPassStrings that takes the words of the short
\* phrase from word_list: C4 does not hold of it.
BuildPassStringsLongOnly(m, numwords, numchars) ==
    Call(LAMBDA joined :
           IF joined.raised
           THEN [m |-> [m EXCEPT !.rng = joined.rng], raised |-> "IndexError"]
           ELSE [m |-> SetPassStrings([m EXCEPT !.rng = joined.rng], joined.texts),
                 raised |-> "none"],
         JoinEach(<< [pool |-> m.listdata.word_list, count |-> numwords],
                     [pool |-> m.listdata.word_list, count |-> numwords],
                     [pool |-> m.strdata.all_char, count |-> numchars],
                     [pool |-> m.strdata.some_char, count |-> numchars],
                     [pool |-> m.strdata.symbols, count |-> 1],
                     [pool |-> m.strdata.digi, count |-> 1],
                     [pool |-> m.strdata.caps, count |-> 1] >>,
                  m.rng))

\* "Build pass-strings" to "Set all pass-strings for display".  A choice()
\* from an empty pool raises IndexError before any assignment.
BuildPassStrings(m, numwords, numchars) ==
    Call(LAMBDA joined :
           IF joined.raised
           THEN [m |-> [m EXCEPT !.rng = joined.rng], raised |-> "IndexError"]
           ELSE [m |-> SetPassStrings([m EXCEPT !.rng = joined.rng], joined.texts),
                 raised |-> "none"],
         JoinEach(<< [pool |-> m.listdata.word_list, count |-> numwords],
                     [pool |-> m.listdata.short_list, count |-> numwords],
                     [pool |-> m.strdata.all_char, count |-> numchars],
                     [pool |-> m.strdata.some_char, count |-> numchars],
                     [pool |-> m.strdata.symbols, count |-> 1],
                     [pool |-> m.strdata.digi, count |-> 1],
                     [pool |-> m.strdata.caps, count |-> 1] >>,
                  m.rng))

\* From "Build pass-strings" to the end of make_pass: the state left and the
\* exception raised, with the place that raised it.
Generate(m, numwords, numchars) ==
    Call(LAMBDA built :
           IF built.raised # "none"
           THEN [m |-> built.m, raised |-> built.raised, at |-> "choice"]
           ELSE Call(LAMBDA scored :
                       [m |-> scored.m, raised |-> scored.raised,
                        at |-> IF scored.raised = "none" THEN "return"
                               ELSE "set_entropy"],
                     set_entropy(built.m, numwords, numchars)),
         BuildPassStrings(m, numwords, numchars))

\* A faulty variant of ApplyExcludeEntry that restores the pools by itself
\* once the word list has run empty: C13 does not hold of it.
ApplyExcludeEntryRecovering(m, unused) ==
    Call(LAMBDA restored :
           IF Len(unused) > 0 THEN ExcludeUnused(restored, unused) ELSE restored,
         IF NeedsReset(unused) \/ m.listdata.word_list = << >>
         THEN reset(m) ELSE m)

\* The exclusion entry's part of make_pass: reset() for an empty entry or one
\* with a space; then, for any entry that is not empty, the filter.
ApplyExcludeEntry(m, unused) ==
    Call(LAMBDA restored :
           IF Len(unused) > 0 THEN ExcludeUnused(restored, unused) ELSE restored,
         IF NeedsReset(unused) THEN reset(m) ELSE m)

\* make_pass() on the state m, whose three entries hold what the user typed.
\* The result carries the state the call leaves, the exception that ended
\* it ("none" when it returned), where it was raised, and the call's locals.
make_pass(m) ==
    LET e1       == [m EXCEPT !.numwords_entry = CorrectNumwords(@)]
        numwords == IntOf(e1.numwords_entry)
        e2       == [e1 EXCEPT !.numchars_entry = CorrectNumchars(@)]
        numchars == IntOf(e2.numchars_entry)
        unused   == Strip(m.exclude_entry)
        locals   == [ numwords |-> numwords.value, numchars |-> numchars.value,
                      unused |-> unused, did_reset |-> NeedsReset(unused) ]
    IN  IF numwords.raised
        THEN [ m |-> e1, raised |-> "ValueError", at |-> "numwords",
               locals |-> [locals EXCEPT !.numchars = 0, !.did_reset = FALSE] ]
        ELSE IF numchars.raised
        THEN [ m |-> e2, raised |-> "ValueError", at |-> "numchars",
               locals |-> [locals EXCEPT !.did_reset = FALSE] ]
        ELSE Call(LAMBDA filtered :
                    Call(LAMBDA done :
                           [ m |-> done.m, raised |-> done.raised,
                             at |-> done.at, locals |-> locals ],
                         Generate(filtered, numwords.value, numchars.value)),
                  ApplyExcludeEntry(e2, unused))

\* ------------------------------------------------------------------------
\* The platform, and PassFonts.
\* ------------------------------------------------------------------------

\* sys.platform[:3] on Linux, macOS and Windows.
Lin == << "l", "i", "n" >>
Dar == << "d", "a", "r" >>
Win == << "w", "i", "n" >>

Platforms == { Lin, Dar, Win }

\* MY_OS in 'lin, dar'
InLinDar(os) ==
    Contains(os, << "l", "i", "n", ",", " ", "d", "a", "r" >>)

\* PassFonts.__init__
sizemax(os) == IF os = Lin THEN 16 ELSE IF os = Win THEN 15 ELSE 20

sizemin(os) == IF os = Lin THEN 4 ELSE IF os = Win THEN 6 ELSE 9

\* The sizes Tk gives TkTextFont where set_fonts() does not configure it.
TkTextFontSizes == 8..12

\* PassFonts.set_fonts: the two fonts and the two default sizes.  tk_size is
\* the size TkTextFont has by itself; the last "elif" belongs to the "if" of
\* 'win'.
set_fonts(os, tk_size) ==
    IF os = Lin
    THEN [ text_font |-> tk_size, result_font |-> 11,
           default_txt_font |-> 10, default_res_font |-> 11 ]
    ELSE IF os = Win
    THEN [ text_font |-> tk_size, result_font |-> 10,
           default_txt_font |-> 10, default_res_font |-> 10 ]
    ELSE [ text_font |-> 14, result_font |-> 13,
           default_txt_font |-> 14, default_res_font |-> 13 ]

\* PassFonts.grow_font: both tests read size, the size of the text font
\* before the call.
grow_font(f, os) ==
    LET size  == f.text_font
        size2 == f.result_font
    IN  [ f EXCEPT
            !.text_font = IF size < sizemax(os) THEN size + 1 ELSE @,
            !.result_font = IF size < sizemax(os) THEN size2 + 1 ELSE @ ]

\* PassFonts.shrink_font
shrink_font(f, os) ==
    LET size  == f.text_font
        size2 == f.result_font
    IN  [ f EXCEPT
            !.text_font = IF size > sizemin(os) THEN size - 1 ELSE @,
            !.result_font = IF size > sizemin(os) THEN size2 - 1 ELSE @ ]

\* PassFonts.default_font_size
default_font_size(f) ==
    [ f EXCEPT !.text_font = f.default_txt_font,
               !.result_font = f.default_res_font ]

\* ------------------------------------------------------------------------
\* The wordlist files and PassModeler.check_files.
\* ------------------------------------------------------------------------

\* A file name, as what precedes its ending and the ending.
SYSDICT_PATH == [ stem |-> "/usr/share/dict/words", ending |-> "" ]

\* list(share.word_files.keys()); the last option's name starts with four
\* Chinese characters in the source.
all_lists ==
    << "System dictionary", "EFF long wordlist", "US Constitution",
       "Don Quijote", "Frankenstein", "Les Miserables", "Story of the Stone" >>

\* share.word_files[option]
wordfile(option) ==
    IF option = "System dictionary" THEN SYSDICT_PATH
    ELSE IF option = "EFF long wordlist"
    THEN [ stem |-> "./wordlists/eff_large", ending |-> "_wordlist.txt" ]
    ELSE IF option = "US Constitution"
    THEN [ stem |-> "./wordlists/usconst", ending |-> "_wordlist.txt" ]
    ELSE IF option = "Don Quijote"
    THEN [ stem |-> "./wordlists/don_quijote", ending |-> "_wordlist.txt" ]
    ELSE IF option = "Frankenstein"
    THEN [ stem |-> "./wordlists/frankenstein", ending |-> "_wordlist.txt" ]
    ELSE IF option = "Les Miserables"
    THEN [ stem |-> "./wordlists/les_miserables", ending |-> ".txt" ]
    ELSE [ stem |-> "./wordlists/red_chamber", ending |-> "_wordlist.txt" ]

\* The files of the repository's wordlists folder.
WordlistFiles == { wordfile(o) : o \in Range(all_lists) } \ { SYSDICT_PATH }

\* glob.glob(WORDDIR + '*_wordlist.txt'), for the files present in WORDDIR.
GlobWordlists(present) == { f \in present : f.ending = "_wordlist.txt" }

\* Path(file).is_file(), with the system dictionary and the files of
\* WORDDIR that are present.
IsFile(file, sysdict, present) ==
    IF file = SYSDICT_PATH THEN sysdict ELSE file \in present

\* all_lists.remove(option)
Remove(list, option) == SelectSeq(list, LAMBDA o : o # option)

\* The Combobox as PassViewer.__init__ creates it.
NewCombobox == [ values |-> << >>, state |-> "readonly", current |-> "" ]

\* PassModeler.check_files: whether quit_gui() ended the program, and the
\* Combobox it leaves otherwise.
check_files(os, sysdict, present) ==
    LET first ==
            IF InLinDar(os) THEN all_lists
            ELSE IF os = Win THEN Remove(all_lists, "System dictionary")
            ELSE NewCombobox.values
        wordfile_list == GlobWordlists(present)
        none   == Cardinality(wordfile_list) = 0
        values ==
            IF ~sysdict
            THEN IF ~none /\ os # Win
                 THEN Remove(all_lists, "System dictionary")
                 ELSE first
            ELSE IF none THEN << "System dictionary" >>
            ELSE first
    IN  IF ~sysdict /\ none
        THEN [ exited |-> TRUE,
               box |-> [ NewCombobox EXCEPT !.values = first ] ]
        ELSE [ exited |-> FALSE,
               box |-> [ values  |-> values,
                         state   |-> IF sysdict /\ none THEN "disabled"
                                     ELSE "readonly",
                         current |-> values[1] ] ]

\* ------------------------------------------------------------------------
\* pygPassphrase.py: the Generator window.
\* ------------------------------------------------------------------------

\* SYMBOLS of pygPassphrase.py.
PygSYMBOLS == << "~", "!", "@", "#", "$", "%", "^", "&", "*", "_", "-" >>

\* The texts that stand for a file not read.
Null == << "N", "u", "l", "l" >>
None == << "N", "o", "n", "e" >>

\* Path(...).read_text() of a file holding the tokens, one per line.
RECURSIVE FileText(_)
FileText(tokens) ==
    IF tokens = << >> THEN << >>
    ELSE Head(tokens) \o << " " >> \o FileText(Tail(tokens))

\* str.lower()
Lower(s) ==
    [ i \in 1..Len(s) |->
        IF s[i] \in Range(ascii_uppercase)
        THEN ascii_lowercase[CHOOSE k \in 1..Len(ascii_uppercase) :
                                 ascii_uppercase[k] = s[i]]
        ELSE s[i] ]

\* The draws the operating system's generator can deliver to one call of
\* make_pass: one of a few streams of numbers.
Entropy == 0..2

\* secure_random.choice(pool), the draw number k of a call fed by stream e.
SecureChoice(pool, e, k) == pool[((e + 3 * k) % Len(pool)) + 1]

\* "".join(secure_random.choice(pool) for _ in range(count)), with the draws
\* numbered from k; IndexError for a draw from an empty pool.
RECURSIVE SecureJoin(_, _, _, _)
SecureJoin(pool, count, e, k) ==
    IF count <= 0 THEN [raised |-> "none", text |-> << >>]
    ELSE IF pool = << >> THEN [raised |-> "IndexError", text |-> << >>]
    ELSE Call(LAMBDA rest :
                [rest EXCEPT !.text = SecureChoice(pool, e, k) \o @],
              SecureJoin(pool, count - 1, e, k + 1))

\* word for word in system_list if re.search(r"'s", word) is None
uniq_words(system_list) ==
    SelectSeq(system_list, LAMBDA word : ~Contains(<< "'", "s" >>, word))

\* word for word in uniq_words if 8 >= len(word) >= 3
trim_words(system_list) ==
    SelectSeq(uniq_words(system_list),
              LAMBDA word : 8 >= Len(word) /\ Len(word) >= 3)

\* word for word in eff_list if word.isalpha()
eff_words(eff_list) == SelectSeq(eff_list, IsAlpha)

\* STUBRESULT of pygPassphrase.py: the stub of passphrase.py without its
\* full stop.
STUBRESULT == SubSeq(stubresult, 1, Len(stubresult) - 1)

\* The Generator as __init__ and setup_window() leave it, with the two word
\* files as they are on disk.  op is the method that ran last; any_describe
\* is the first of the three labels that describe the passphrases (the
\* other two and the visibility of the third result change with it).
NewGenerator(os, syswords, effwords) ==
    [ SYSWORDS_PATH  |-> syswords,
      EFFWORDS_PATH  |-> effwords,
      at             |-> "constructed",
      op             |-> "setup_window",
      any_describe   |-> IF InLinDar(os) THEN "Any words from dictionary"
                         ELSE "Any words from EFF wordlist",
      use_effwords   |-> TRUE,
      system_words   |-> Null,
      eff_wordlist   |-> None,
      eff_list       |-> << None >>,
      system_list    |-> << None >>,
      eff            |-> FALSE,
      eff_chk        |-> IF InLinDar(os) THEN "normal" ELSE "absent",
      numwords_entry |-> << "5" >>,
      numchars_entry |-> << "0" >>,
      phrase_any     |-> STUBRESULT,
      phrase_lc      |-> STUBRESULT,
      phrase_select  |-> IF InLinDar(os) THEN STUBRESULT ELSE << >>,
      length_any     |-> << "0" >>,
      length_lc      |-> << "0" >>,
      length_select  |-> << "0" >>,
      pw_any         |-> STUBRESULT,
      pw_select      |-> STUBRESULT,
      raised         |-> "none" ]

\* Generator.get_words
Generator_get_words(g, os) ==
    IF \/ InLinDar(os) /\ ~g.SYSWORDS_PATH /\ ~g.EFFWORDS_PATH
       \/ ~InLinDar(os) /\ os = Win /\ ~g.EFFWORDS_PATH
    THEN [ g EXCEPT !.at = "exited", !.op = "get_words" ]
    ELSE LET system_words ==
                 IF InLinDar(os) /\ g.SYSWORDS_PATH
                 THEN FileText(SystemDictionaryTokens)
                 ELSE IF InLinDar(os) THEN Null
                 ELSE g.system_words
             eff_wordlist ==
                 IF (os = Win \/ InLinDar(os)) /\ g.EFFWORDS_PATH
                 THEN FileText(EffTokens)
                 ELSE g.eff_wordlist
         IN  [ g EXCEPT
                 !.at = "ready",
                 !.op = "get_words",
                 !.system_words = system_words,
                 !.eff_wordlist = eff_wordlist,
                 !.use_effwords =
                     IF InLinDar(os) /\ ~g.EFFWORDS_PATH THEN FALSE ELSE @,
                 !.eff_chk =
                     IF InLinDar(os) /\ (~g.SYSWORDS_PATH \/ ~g.EFFWORDS_PATH)
                     THEN "disabled" ELSE @,
                 !.system_list =
                     IF InLinDar(os) THEN Split(system_words) ELSE @,
                 !.eff_list = Split(eff_wordlist) ]

\* A faulty variant of UsesEffWords that forgets the missing system
\* dictionary: C26 does not hold of it.
UsesEffWordsUnlessNull(g, os) ==
    \/ InLinDar(os) /\ g.eff
    \/ os = Win

\* The two conditions under which make_pass replaces allwords and somewords
\* by effwords.
UsesEffWords(g, os) ==
    \/ InLinDar(os) /\ g.eff
    \/ os = Win \/ g.system_words = Null

\* Generator.make_pass, its draws fed by the stream e.  An exception leaves
\* the results on display as they were.
Generator_make_pass(g, os, e) ==
    LET numwords == IntOf(g.numwords_entry)
        numchars == IntOf(g.numchars_entry)
        n        == numwords.value
        caps     == ascii_uppercase
        string1  == ascii_letters \o digits \o punctuation
        string2  == ascii_letters \o digits \o PygSYMBOLS
        drawn_all  == SecureJoin(uniq_words(g.system_list), n, e, 0)
        drawn_some == SecureJoin(trim_words(g.system_list), n, e, n)
        effwords   == SecureJoin(eff_words(g.eff_list), n, e, 2 * n)
        addsymbol  == SecureChoice(Units(PygSYMBOLS), e, 3 * n)
        addcaps    == SecureChoice(Units(caps), e, 3 * n + 1)
        addnum     == SecureChoice(Units(digits), e, 3 * n + 2)
        allwords   == IF UsesEffWords(g, os) THEN effwords.text
                      ELSE drawn_all.text
        somewords  == IF UsesEffWords(g, os) THEN effwords.text
                      ELSE drawn_some.text
        passphrase1 == Lower(allwords) \o addsymbol \o addnum \o addcaps
        passphrase2 == Lower(somewords) \o addsymbol \o addnum \o addcaps
        password1 == SecureJoin(Units(string1), numchars.value, e, 3 * n + 3)
        password2 == SecureJoin(Units(string2), numchars.value, e,
                                3 * n + 3 + numchars.value)
        shown == InLinDar(os) /\ ~g.eff
        g1 == [ g EXCEPT
                  !.op = "make_pass",
                  !.any_describe =
                      IF InLinDar(os) /\ ~g.eff
                      THEN "Any words from dictionary"
                      ELSE "Any words from EFF wordlist" ]
    IN  IF numwords.raised THEN [ g1 EXCEPT !.raised = "ValueError" ]
        ELSE IF { drawn_all.raised, drawn_some.raised, effwords.raised }
                  # { "none" }
        THEN [ g1 EXCEPT !.raised = "IndexError" ]
        ELSE IF numchars.raised
        THEN [ g1 EXCEPT
                 !.raised = "ValueError",
                 !.eff_chk = IF ~(InLinDar(os) /\ g.eff) /\ UsesEffWords(g, os)
                                  /\ InLinDar(os)
                             THEN "disabled" ELSE @ ]
        ELSE [ g1 EXCEPT
                 !.raised = "none",
                 !.eff_chk = IF ~(InLinDar(os) /\ g.eff) /\ UsesEffWords(g, os)
                                  /\ InLinDar(os)
                             THEN "disabled" ELSE @,
                 !.phrase_select = IF shown THEN passphrase2 ELSE << >>,
                 !.length_select = IF shown THEN Str(Len(passphrase2))
                                   ELSE << >>,
                 !.phrase_any = allwords,
                 !.phrase_lc = passphrase1,
                 !.length_any = Str(Len(allwords)),
                 !.length_lc = Str(Len(passphrase1)),
                 !.pw_any = password1.text,
                 !.pw_select = password2.text ]

\* ------------------------------------------------------------------------
\* State.
\* ------------------------------------------------------------------------

VARIABLES
    strdata,          \* PassModeler.strdata: the five character pools, all_unused
    listdata,         \* PassModeler.listdata: word_list and short_list
    tkdata,           \* share.tkdata: the values on display
    numwords_entry,   \* text of the "# words" entry
    numchars_entry,   \* text of the "# characters" entry
    exclude_entry,    \* text of the "Exclude character(s)" entry
    choose_wordlist,  \* the selected option of the wordlist Combobox
    longlist_len,     \* share.longlist_len
    rng,              \* state of VERY_RANDOM
    call,             \* history: the last handler run, its locals and outcome
    applied,          \* history: fragments filtered with since the last
                      \*   reset() or get_words()
    clean,            \* history: all seven pools were unfiltered when
                      \*   applied was last emptied
    MY_OS,            \* sys.platform[:3]
    fonts,            \* share.text_font, share.result_font: their sizes, and
                      \*   the two default sizes
    files,            \* the word files present, the start-up step reached
                      \*   and the choose_wordlist Combobox
    pyg               \* the Generator window of pygPassphrase.py

vars == << strdata, listdata, tkdata, numwords_entry, numchars_entry,
           exclude_entry, choose_wordlist, longlist_len, rng, call, applied,
           clean, MY_OS, fonts, files, pyg >>

\* The variables of passphrase.py's generator.
passvars == << strdata, listdata, tkdata, numwords_entry, numchars_entry,
               exclude_entry, choose_wordlist, longlist_len, rng, call,
               applied, clean >>

\* The program state as one record.
M == [ strdata |-> strdata, listdata |-> listdata, tkdata |-> tkdata,
       numwords_entry |-> numwords_entry, numchars_entry |-> numchars_entry,
       exclude_entry |-> exclude_entry, choose_wordlist |-> choose_wordlist,
       longlist_len |-> longlist_len, rng |-> rng ]

Install(m) ==
    /\ strdata' = m.strdata
    /\ listdata' = m.listdata
    /\ tkdata' = m.tkdata
    /\ numwords_entry' = m.numwords_entry
    /\ numchars_entry' = m.numchars_entry
    /\ exclude_entry' = m.exclude_entry
    /\ choose_wordlist' = m.choose_wordlist
    /\ longlist_len' = m.longlist_len
    /\ rng' = m.rng
    /\ UNCHANGED << MY_OS, fonts, files, pyg >>

PoolNames == { "symbols", "digi", "caps", "all_char", "some_char" }

Unfiltered(m) ==
    /\ m.listdata = Loaded[m.choose_wordlist]
    /\ \A p \in PoolNames : m.strdata[p] = BaseStrdata[p]

\* ------------------------------------------------------------------------
\* What the user types.
\* ------------------------------------------------------------------------

\* Numbers typed into the "# words" entry.
WordCounts == { Str(n) : n \in 0..MaxCount }

\* The number typed into the "# characters" entry.
CharCounts == { << "1" >> }

\* Other texts typed into the two entries.
OddCounts == { << >>, << " " >>, << "x" >>, << "sup2" >>, << " ", "1" >> }

\* Texts typed into the exclusion entry.
ExcludeTexts ==
    { << >>, << "e" >>, << "e", "s", " " >>, << "E" >>, << "e", " ", "s" >> }

\* ------------------------------------------------------------------------
\* Initial state: PassViewer.__init__ has built the widgets, check_files()
\* has selected the first wordlist and get_words() has loaded it.
\* ------------------------------------------------------------------------

InitPass ==
    /\ rng \in 0..(RngMod - 1)
    /\ LET m == get_words(
                  [ strdata |-> BaseStrdata,
                    listdata |-> [word_list |-> << >>, short_list |-> << >>],
                    tkdata |-> InitTkdata,
                    numwords_entry |-> << "4" >>,
                    numchars_entry |-> << "0" >>,
                    exclude_entry |-> << >>,
                    choose_wordlist |-> WordlistChoices[1],
                    longlist_len |-> 0,
                    rng |-> rng ])
       IN  /\ strdata = m.strdata
           /\ listdata = m.listdata
           /\ tkdata = m.tkdata
           /\ numwords_entry = m.numwords_entry
           /\ numchars_entry = m.numchars_entry
           /\ exclude_entry = m.exclude_entry
           /\ choose_wordlist = m.choose_wordlist
           /\ longlist_len = m.longlist_len
    /\ call = [ op |-> "startup", raised |-> "none", at |-> "return",
                numwords |-> 0, numchars |-> 0, unused |-> << >>,
                did_reset |-> FALSE ]
    /\ applied = { }
    /\ clean = TRUE

\* passphrase.py started on Linux, where TkTextFont has size 10, with the
\* system dictionary and every wordlist file present; pygPassphrase.py is
\* not running.
Init ==
    /\ InitPass
    /\ MY_OS = Lin
    /\ fonts = set_fonts(Lin, 10)
    /\ files = [ sysdict |-> TRUE, present |-> WordlistFiles, at |-> "loaded",
                 raised |-> "none",
                 box |-> check_files(Lin, TRUE, WordlistFiles).box ]
    /\ pyg = NewGenerator(Lin, TRUE, TRUE)

\* ------------------------------------------------------------------------
\* Actions: the three handlers the user can trigger.
\* ------------------------------------------------------------------------

\* The call got past the two int() conversions.
PastCounts(c) == c.at \notin { "numwords", "numchars" }

\* A fragment the exclusion filter is meant for.
IsFragment(unused) == Len(unused) > 0 /\ ~Contains(<< " " >>, unused)

\* PassController.makepass: Generate!, with the three entries as typed.
MakePass(words, chars, excl) ==
    \E r \in { make_pass([ M EXCEPT !.numwords_entry = words,
                                    !.numchars_entry = chars,
                                    !.exclude_entry = excl ]) } :
      LET c == [ op |-> "make_pass", raised |-> r.raised, at |-> r.at,
                 numwords |-> r.locals.numwords,
                 numchars |-> r.locals.numchars,
                 unused |-> r.locals.unused,
                 did_reset |-> r.locals.did_reset ]
      IN  /\ Install(r.m)
          /\ call' = c
          /\ applied' =
               IF ~PastCounts(c) THEN applied
               ELSE (IF c.did_reset THEN { } ELSE applied)
                      \cup (IF IsFragment(c.unused) THEN { c.unused } ELSE { })
          /\ clean' = IF PastCounts(c) /\ c.did_reset THEN TRUE ELSE clean

\* PassController.reset: the Reset button.
Reset ==
    /\ Install(reset(M))
    /\ call' = [ op |-> "reset", raised |-> "none", at |-> "return",
                 numwords |-> 0, numchars |-> 0, unused |-> << >>,
                 did_reset |-> TRUE ]
    /\ applied' = { }
    /\ clean' = TRUE

\* PassController.getwords: a wordlist is selected in the Combobox.
GetWords(selection) ==
    \E m \in { get_words([M EXCEPT !.choose_wordlist = selection]) } :
        /\ Install(m)
        /\ call' = [ op |-> "get_words", raised |-> "none", at |-> "return",
                     numwords |-> 0, numchars |-> 0, unused |-> << >>,
                     did_reset |-> FALSE ]
        /\ applied' = { }
        /\ clean' = Unfiltered(m)

Next ==
    \/ \E words \in WordCounts, chars \in CharCounts, excl \in ExcludeTexts :
          MakePass(words, chars, excl)
    \/ Reset
    \/ \E selection \in Range(WordlistChoices) : GetWords(selection)

Spec == Init /\ [][Next]_vars

\* The same program with every kind of count text typed, and fewer
\* exclusions.
NextCounts ==
    \/ \E words \in OddCounts, chars \in OddCounts,
          excl \in { << >>, << "e" >> } :
          MakePass(words, chars, excl)
    \/ Reset
    \/ \E selection \in Range(WordlistChoices) : GetWords(selection)

SpecCounts == Init /\ [][NextCounts]_vars

\* Counts of none and of two, typed into either count entry.
PairCounts == { << "0" >>, << "2" >> }

\* Fragments of one and of two characters, and the empty entry.
PairExcludeTexts == { << >>, << "e" >>, << "a", "e" >> }

\* The same program with no or two words and no or two characters asked
\* for, and a fragment of two characters among the exclusions.
NextChars ==
    \/ \E words \in PairCounts, chars \in PairCounts,
          excl \in PairExcludeTexts :
          MakePass(words, chars, excl)
    \/ Reset
    \/ \E selection \in Range(WordlistChoices) : GetWords(selection)

SpecChars == Init /\ [][NextChars]_vars

\* Counts of none and one word, typed into the word-count entry.
FewWordCounts == { << "0" >>, << "1" >> }

\* A passcode of ten characters asked for.
TenCounts == { << "1", "0" >> }

\* The same program with ten passcode characters asked for.
NextTen ==
    \/ \E words \in FewWordCounts, chars \in TenCounts,
          excl \in { << >>, << "e" >>, << "E" >> } :
          MakePass(words, chars, excl)
    \/ Reset
    \/ \E selection \in Range(WordlistChoices) : GetWords(selection)

SpecTen == Init /\ [][NextTen]_vars

\* ------------------------------------------------------------------------
\* The font sizes: the program started on any platform, and the three
\* commands of the View menu.
\* ------------------------------------------------------------------------

InitFonts ==
    /\ InitPass
    /\ MY_OS \in Platforms
    /\ \E tk_size \in TkTextFontSizes : fonts = set_fonts(MY_OS, tk_size)
    /\ files = [ sysdict |-> TRUE, present |-> WordlistFiles, at |-> "loaded",
                 raised |-> "none",
                 box |-> check_files(MY_OS, TRUE, WordlistFiles).box ]
    /\ pyg = NewGenerator(MY_OS, TRUE, TRUE)

\* PassController.growfont
GrowFont ==
    /\ fonts' = grow_font(fonts, MY_OS)
    /\ UNCHANGED << passvars, MY_OS, files, pyg >>

\* PassController.shrinkfont
ShrinkFont ==
    /\ fonts' = shrink_font(fonts, MY_OS)
    /\ UNCHANGED << passvars, MY_OS, files, pyg >>

\* PassController.defaultfontsize
DefaultFontSize ==
    /\ fonts' = default_font_size(fonts)
    /\ UNCHANGED << passvars, MY_OS, files, pyg >>

NextFonts == GrowFont \/ ShrinkFont \/ DefaultFontSize

SpecFonts == InitFonts /\ [][NextFonts]_vars

\* ------------------------------------------------------------------------
\* Start-up with any of the word files missing: PassViewer.__init__ calls
\* checkfiles() and getwords(), and the user then selects wordlists.
\* ------------------------------------------------------------------------

InitFiles ==
    /\ InitPass
    /\ MY_OS \in Platforms
    /\ fonts = set_fonts(MY_OS, 10)
    /\ \E sysdict \in BOOLEAN, present \in SUBSET WordlistFiles :
          files = [ sysdict |-> sysdict, present |-> present,
                    at |-> "constructed", raised |-> "none",
                    box |-> NewCombobox ]
    /\ pyg = NewGenerator(MY_OS, TRUE, TRUE)

\* The options the Combobox lets the user select.
Selectable(box) ==
    IF box.state = "disabled" THEN { box.current } ELSE Range(box.values)

\* The outcome of the read_text() of get_words() for the selected option.
ReadWordfile(f) ==
    IF IsFile(wordfile(f.box.current), f.sysdict, f.present)
    THEN "none" ELSE "FileNotFoundError"

\* PassController.checkfiles, called by PassViewer.__init__.
CheckFiles ==
    /\ files.at = "constructed"
    /\ \E r \in { check_files(MY_OS, files.sysdict, files.present) } :
          files' = [ files EXCEPT
                       !.at = IF r.exited THEN "exited" ELSE "checked",
                       !.box = r.box ]
    /\ UNCHANGED << passvars, MY_OS, fonts, pyg >>

\* PassController.getwords, called by PassViewer.__init__: an exception
\* here ends the program.
StartupGetWords ==
    /\ files.at = "checked"
    /\ files' = [ files EXCEPT
                    !.raised = ReadWordfile(files),
                    !.at = IF ReadWordfile(files) = "none" THEN "loaded"
                           ELSE "crashed" ]
    /\ UNCHANGED << passvars, MY_OS, fonts, pyg >>

\* The user selects an option of the Combobox, which calls getwords; an
\* exception in this callback is reported and the program goes on.
SelectWordlist(option) ==
    /\ files.at = "loaded"
    /\ option \in Selectable(files.box)
    /\ \E f \in { [ files EXCEPT !.box.current = option ] } :
          files' = [ f EXCEPT !.raised = ReadWordfile(f) ]
    /\ UNCHANGED << passvars, MY_OS, fonts, pyg >>

NextFiles ==
    \/ CheckFiles
    \/ StartupGetWords
    \/ \E option \in Range(all_lists) : SelectWordlist(option)

SpecFiles == InitFiles /\ [][NextFiles]_vars

\* ------------------------------------------------------------------------
\* pygPassphrase.py started on any platform with either word file present
\* or missing: get_words() at start-up, then the EFF checkbox and Generate!.
\* ------------------------------------------------------------------------

\* Texts typed into the two entries of the Generator window.
PygWordCounts == { << "0" >>, << "1" >>, << "2" >>, << >>, << "x" >> }

PygCharCounts == { << "0" >>, << "1" >>, << >>, << "x" >> }

InitPyg ==
    /\ InitPass
    /\ rng = 0
    /\ MY_OS \in Platforms
    /\ fonts = set_fonts(MY_OS, 10)
    /\ files = [ sysdict |-> TRUE, present |-> WordlistFiles, at |-> "loaded",
                 raised |-> "none",
                 box |-> check_files(MY_OS, TRUE, WordlistFiles).box ]
    /\ \E syswords \in BOOLEAN, effwords \in BOOLEAN :
          pyg = NewGenerator(MY_OS, syswords, effwords)

\* Generator(root).get_words()
PygGetWords ==
    /\ pyg.at = "constructed"
    /\ pyg' = Generator_get_words(pyg, MY_OS)
    /\ UNCHANGED << passvars, MY_OS, fonts, files >>

\* A click on the "Use EFF word list" Checkbutton.
ToggleEff ==
    /\ pyg.at = "ready"
    /\ pyg.eff_chk = "normal"
    /\ pyg' = [ pyg EXCEPT !.eff = ~@, !.op = "eff_chk" ]
    /\ UNCHANGED << passvars, MY_OS, fonts, files >>

\* Generate!, with the two entries as typed.
PygMakePass(words, chars) ==
    /\ pyg.at = "ready"
    /\ \E e \in Entropy :
          pyg' = Generator_make_pass(
                     [ pyg EXCEPT !.numwords_entry = words,
                                  !.numchars_entry = chars ], MY_OS, e)
    /\ UNCHANGED << passvars, MY_OS, fonts, files >>

NextPyg ==
    \/ PygGetWords
    \/ ToggleEff
    \/ \E words \in PygWordCounts, chars \in PygCharCounts :
          PygMakePass(words, chars)

SpecPyg == InitPyg /\ [][NextPyg]_vars

\* ------------------------------------------------------------------------
\* Vocabulary of the properties.
\* ------------------------------------------------------------------------

SevenPools ==
    { "word_list", "short_list", "symbols", "digi", "caps", "all_char",
      "some_char" }

\* The seven pools of the current state.
Pools ==
    [ word_list  |-> listdata.word_list,
      short_list |-> listdata.short_list,
      symbols    |-> strdata.symbols,
      digi       |-> strdata.digi,
      caps       |-> strdata.caps,
      all_char   |-> strdata.all_char,
      some_char  |-> strdata.some_char ]

\* The seven pools with nothing excluded, for a word source.
Baseline(selection) ==
    [ word_list  |-> Loaded[selection].word_list,
      short_list |-> Loaded[selection].short_list,
      symbols    |-> BaseStrdata.symbols,
      digi       |-> BaseStrdata.digi,
      caps       |-> BaseStrdata.caps,
      all_char   |-> BaseStrdata.all_char,
      some_char  |-> BaseStrdata.some_char ]

\* The units of a pool that contain none of the fragments.
Without(pool, fragments) ==
    LET Clear(u) == \A f \in fragments : ~Contains(f, u)
    IN  SelectSeq(pool, Clear)

\* text is the concatenation of exactly count units of the set units.
RECURSIVE MadeOf(_, _, _)
MadeOf(text, units, count) ==
    IF count = 0 THEN text = << >>
    ELSE \E u \in units :
            /\ Len(u) <= Len(text)
            /\ SubSeq(text, 1, Len(u)) = u
            /\ MadeOf(SubSeq(text, Len(u) + 1, Len(text)), units, count - 1)

\* The last handler was make_pass and it returned without an exception.
Generated == call.op = "make_pass" /\ call.raised = "none"

\* The last handler was make_pass and it reached its exclusion step.
Excluding == call.op = "make_pass" /\ PastCounts(call)

Yes == << "y", "e", "s" >>
Trees == << "t", "r", "e", "e", "s" >>
Eye == << "e", "y", "e" >>
Says == << "s", "a", "y", "s" >>

\* ------------------------------------------------------------------------
\* C1.  A make_pass call whose trimmed exclusion entry f is not empty and has
\* no space leaves in each of the seven pools exactly the units it held
\* before that do not contain f as a substring, in their order; "es" removes
\* "trees" and "yes" and keeps "eye" and "says".
\* ------------------------------------------------------------------------
C1_ExclusionKeepsExactlyUnitsWithoutFragment ==
    [][ (Excluding' /\ IsFragment(call'.unused)) =>
          /\ \A p \in SevenPools : Pools'[p] = Without(Pools[p], { call'.unused })
          /\ call'.unused = << "e", "s" >> =>
                /\ Trees \notin Range(listdata'.word_list)
                /\ Yes \notin Range(listdata'.word_list)
                /\ \A w \in { Eye, Says } :
                      w \in Range(listdata.word_list) =>
                          w \in Range(listdata'.word_list) ]_vars

C1_EsApplied ==
    /\ Excluding
    /\ call.unused = << "e", "s" >>
    /\ { Eye, Says } \subseteq Range(listdata.word_list)
    /\ Trees \notin Range(listdata.word_list)
    /\ Len(listdata.word_list) < Len(Loaded[choose_wordlist].word_list)

\* ------------------------------------------------------------------------
\* C2.  When two different fragments have been excluded by make_pass calls
\* since the pools were last all unfiltered, with no reset() or wordlist
\* reload in between, every pool is its unfiltered baseline less the units
\* containing the one fragment, less the units containing the other.
\* ------------------------------------------------------------------------
C2_ExclusionsAreCumulative ==
    (clean /\ Cardinality(applied) = 2) =>
        \A p \in SevenPools :
            Pools[p] = Without(Baseline(choose_wordlist)[p], applied)

C2_TwoFragmentsApplied ==
    /\ clean
    /\ applied = { << "e" >>, << "E" >> }
    /\ Excluding
    /\ << "e" >> \notin Range(strdata.all_char)
    /\ << "E" >> \notin Range(strdata.all_char)

\* ------------------------------------------------------------------------
\* C3.  After a make_pass call whose trimmed exclusion entry is empty or has
\* a space, all seven pools are the unfiltered baseline of the selected
\* wordlist, tkdata['excluded'] and strdata['all_unused'] are empty, and
\* when the call returned its outputs are made of units of those pools.
\* ------------------------------------------------------------------------
C3_EmptyOrSpacedEntryRestoresBaseline ==
    (Excluding /\ (Len(call.unused) = 0 \/ " " \in Range(call.unused))) =>
        /\ Pools = Baseline(choose_wordlist)
        /\ tkdata.excluded = << >>
        /\ strdata.all_unused = << >>
        /\ Generated =>
              /\ MadeOf(tkdata.phrase_raw,
                        Range(Baseline(choose_wordlist).word_list), call.numwords)
              /\ MadeOf(tkdata.pc_any,
                        Range(Baseline(choose_wordlist).all_char), call.numchars)
              /\ MadeOf(tkdata.pc_some,
                        Range(Baseline(choose_wordlist).some_char), call.numchars)

C3_SpacedEntryGenerated ==
    /\ Generated
    /\ call.unused = << "e", " ", "s" >>
    /\ call.numwords > 0
    /\ Len(tkdata.phrase_raw) > 0

\* ------------------------------------------------------------------------
\* C4.  After a make_pass that returned, phrase_raw is exactly word_count
\* words of word_list, phrase_short less its last three characters is exactly
\* word_count words of short_list, pc_any is exactly char_count characters of
\* all_char and pc_some exactly char_count characters of some_char, the
\* pools being those the call left.
\* ------------------------------------------------------------------------
C4_OutputsMadeOfPoolUnits ==
    Generated =>
        /\ MadeOf(tkdata.phrase_raw, Range(listdata.word_list), call.numwords)
        /\ Len(tkdata.phrase_short) >= 3
        /\ MadeOf(SubSeq(tkdata.phrase_short, 1, Len(tkdata.phrase_short) - 3),
                  Range(listdata.short_list), call.numwords)
        /\ Len(tkdata.pc_any) = call.numchars
        /\ MadeOf(tkdata.pc_any, Range(strdata.all_char), call.numchars)
        /\ Len(tkdata.pc_some) = call.numchars
        /\ MadeOf(tkdata.pc_some, Range(strdata.some_char), call.numchars)

C4_GeneratedFromFilteredPools ==
    /\ Generated
    /\ call.unused = << "e" >>
    /\ call.numwords = 2
    /\ call.numchars = 1
    /\ Len(tkdata.phrase_raw) >= 6
    /\ Len(listdata.short_list) < Len(listdata.word_list)

\* ------------------------------------------------------------------------
\* C5.  Every fragment the pools have been filtered with since the last
\* reset or reload is a white-space delimited token of tkdata['excluded'].
\* ------------------------------------------------------------------------
C5_ExcludedShowsEveryAppliedFragment ==
    \A f \in applied : f \in Range(Split(tkdata.excluded))

\* ------------------------------------------------------------------------
\* C6.  Right after get_words (a wordlist selected) all seven pools are
\* unfiltered and tkdata['excluded'] is empty; and after one make_pass with a
\* fragment f that follows it, the pools are the baseline less the units
\* containing f and tkdata['excluded'] shows f alone.
\* ------------------------------------------------------------------------
C6_ReloadResetsAllExclusions ==
    /\ call.op = "get_words" =>
          Pools = Baseline(choose_wordlist) /\ tkdata.excluded = << >>
    /\ (Excluding /\ applied = { call.unused }) =>
          /\ \A p \in SevenPools :
                Pools[p] = Without(Baseline(choose_wordlist)[p], applied)
          /\ Split(tkdata.excluded) = << call.unused >>

\* ------------------------------------------------------------------------
\* C7.  After a make_pass that returned, pp_raw_h = floor(word_count *
\* log2(|word_list|)), pc_any_h = floor(char_count * log2(|all_char|)) and
\* pc_some_h = floor(char_count * log2(|some_char|)), the pools being those
\* the call sampled.
\* ------------------------------------------------------------------------
C7_EntropyIsFloorOfLLog2N ==
    Generated =>
        /\ tkdata.pp_raw_h =
              FloorLog2(Power(Len(listdata.word_list), call.numwords))
        /\ tkdata.pc_any_h =
              FloorLog2(Power(Len(strdata.all_char), call.numchars))
        /\ tkdata.pc_some_h =
              FloorLog2(Power(Len(strdata.some_char), call.numchars))

\* ------------------------------------------------------------------------
\* C8.  After a make_pass that returned, pp_plus_h = pp_raw_h + H_triplet and
\* pp_short_h = floor(word_count * log2(|short_list|)) + H_triplet, with
\* H_triplet = floor(log2(|symbols|) + log2(|caps|) + log2(|digi|)) of the
\* current bonus pools.
\* ------------------------------------------------------------------------
C8_BonusTripletEntropy ==
    LET h_triplet ==
          FloorLog2(Len(strdata.symbols) * Len(strdata.caps) * Len(strdata.digi))
    IN  Generated =>
          /\ tkdata.pp_plus_h = tkdata.pp_raw_h + h_triplet
          /\ tkdata.pp_short_h =
                FloorLog2(Power(Len(listdata.short_list), call.numwords))
                  + h_triplet

\* ------------------------------------------------------------------------
\* C9.  When a make_pass that returned is followed by a make_pass with the
\* same two counts that returned and did not reset (it applied a fragment),
\* none of the five entropy values is larger after the second call.
\* ------------------------------------------------------------------------
C9_ExclusionNeverRaisesEntropy ==
    [][ ( /\ Generated
          /\ Generated'
          /\ ~call'.did_reset
          /\ call'.numwords = call.numwords
          /\ call'.numchars = call.numchars ) =>
            /\ tkdata'.pp_raw_h <= tkdata.pp_raw_h
            /\ tkdata'.pp_plus_h <= tkdata.pp_plus_h
            /\ tkdata'.pp_short_h <= tkdata.pp_short_h
            /\ tkdata'.pc_any_h <= tkdata.pc_any_h
            /\ tkdata'.pc_some_h <= tkdata.pc_some_h ]_vars

C9_EntropyLoweredByExclusions ==
    /\ Generated
    /\ ~call.did_reset
    /\ clean
    /\ Cardinality(applied) = 2
    /\ call.numwords = MaxCount
    /\ tkdata.pp_raw_h
          < EntropyBits(call.numwords, Len(Loaded[choose_wordlist].word_list))
    /\ Len(strdata.all_char) < Len(BaseStrdata.all_char)
    /\ tkdata.pc_any_h <= EntropyBits(call.numchars, Len(BaseStrdata.all_char))

\* ------------------------------------------------------------------------
\* C10.  No make_pass call is ended by the text of the word-count or the
\* character-count entry: whatever the two entries hold, the call gets past
\* both conversions.
\* ------------------------------------------------------------------------
C10_CountTextNeverRejected ==
    call.op = "make_pass" => PastCounts(call)

\* ------------------------------------------------------------------------
\* More vocabulary.
\* ------------------------------------------------------------------------

\* The last handler was make_pass and an exception ended it after the two
\* count conversions.
Failed == Excluding /\ call.raised # "none"

\* The pools a make_pass call with these counts draws at least one unit from.
DrawnFrom(numwords, numchars) ==
    (IF numwords > 0 THEN { "word_list", "short_list" } ELSE { })
      \cup (IF numchars > 0 THEN { "all_char", "some_char" } ELSE { })
      \cup { "symbols", "digi", "caps" }

\* ------------------------------------------------------------------------
\* C11.  A make_pass call that fails leaves empty one of the pools it draws
\* at least one unit from: word_list or short_list when word_count > 0,
\* all_char or some_char when char_count > 0, symbols, digi or caps always.
\* With word_count = 0 an empty word_list or short_list does not make the
\* call fail.
\* ------------------------------------------------------------------------
C11_FailsOnlyOnADrawnPool ==
    Failed =>
        \E p \in DrawnFrom(call.numwords, call.numchars) : Pools[p] = << >>

\* The five (text, length, entropy) triples on display.
Results ==
    [ raw   |-> << tkdata.phrase_raw, tkdata.pp_raw_len, tkdata.pp_raw_h >>,
      plus  |-> << tkdata.phrase_plus, tkdata.pp_plus_len, tkdata.pp_plus_h >>,
      short |-> << tkdata.phrase_short, tkdata.pp_short_len, tkdata.pp_short_h >>,
      any   |-> << tkdata.pc_any, tkdata.pc_any_len, tkdata.pc_any_h >>,
      some  |-> << tkdata.pc_some, tkdata.pc_some_len, tkdata.pc_some_h >> ]

\* ------------------------------------------------------------------------
\* C12.  A make_pass call that fails, while sampling or while computing the
\* entropy, leaves all five (text, length, entropy) triples as they were
\* before the call.
\* ------------------------------------------------------------------------
C12_FailedCallLeavesResults ==
    [][ Failed' => Results' = Results ]_vars

\* ------------------------------------------------------------------------
\* C13.  A make_pass call with a non-empty, space-free fragment adds no
\* unit to any pool, and fails when a pool it draws from was already empty
\* before it: an emptied pool stays empty and keeps failing the calls that
\* draw from it until a reset.
\* ------------------------------------------------------------------------
C13_NoImplicitUnfiltering ==
    [][ (Excluding' /\ IsFragment(call'.unused)) =>
          /\ \A p \in SevenPools :
                /\ Range(Pools'[p]) \subseteq Range(Pools[p])
                /\ Len(Pools'[p]) <= Len(Pools[p])
          /\ \A p \in DrawnFrom(call'.numwords, call'.numchars) :
                Pools[p] = << >> => (Pools'[p] = << >> /\ Failed') ]_vars

C13_FailedAgainOnEmptiedPool ==
    /\ Failed
    /\ call.raised = "IndexError"
    /\ call.unused = << "E" >>
    /\ call.numwords > 0
    /\ listdata.word_list = << >>
    /\ Loaded[choose_wordlist].word_list # << >>

\* ------------------------------------------------------------------------
\* C14.  From every reachable state, one where a make_pass failed on an
\* empty pool included, reset() followed by make_pass with an empty
\* exclusion entry and digit counts returns without an exception (the word
\* sources have words and short words).
\* ------------------------------------------------------------------------
C14_ResetRecovers ==
    \A words \in WordCounts, chars \in CharCounts \cup { << "0" >> } :
        LET after == make_pass([ reset(M) EXCEPT
                                    !.numwords_entry = words,
                                    !.numchars_entry = chars,
                                    !.exclude_entry = << >> ])
        IN  after.raised = "none"

C14_FailedOnEmptyWordList ==
    /\ Failed
    /\ call.raised = "IndexError"
    /\ listdata.word_list = << >>
    /\ listdata.short_list = << >>
    /\ Loaded[choose_wordlist].short_list # << >>

\* The last three characters of a text that has them.
LastThree(text) == SubSeq(text, Len(text) - 2, Len(text))

\* ------------------------------------------------------------------------
\* C15.  After a make_pass that returned, phrase_plus is phrase_raw followed
\* by three characters s, d, u and phrase_short ends with the same three, s
\* being in the current symbols pool, d in the current digi pool and u in
\* the current caps pool; pp_plus_len = pp_raw_len + 3.
\* ------------------------------------------------------------------------
C15_BonusTripletAppended ==
    Generated =>
        /\ Len(tkdata.phrase_plus) >= 3
        /\ Len(tkdata.phrase_short) >= 3
        /\ tkdata.phrase_plus = tkdata.phrase_raw \o LastThree(tkdata.phrase_plus)
        /\ LastThree(tkdata.phrase_short) = LastThree(tkdata.phrase_plus)
        /\ << LastThree(tkdata.phrase_plus)[1] >> \in Range(strdata.symbols)
        /\ << LastThree(tkdata.phrase_plus)[2] >> \in Range(strdata.digi)
        /\ << LastThree(tkdata.phrase_plus)[3] >> \in Range(strdata.caps)
        /\ tkdata.pp_plus_len = tkdata.pp_raw_len + 3

C15_TripletFromFilteredCaps ==
    /\ Generated
    /\ << "E" >> \notin Range(strdata.caps)
    /\ call.numwords > 0
    /\ Len(tkdata.phrase_raw) > 0
    /\ LastThree(tkdata.phrase_plus)[3] = "F"

\* ------------------------------------------------------------------------
\* C16.  After a make_pass that returned, each of the five lengths on
\* display is the number of characters of its text, the two passcodes have
\* char_count characters each, phrase_raw is empty with length 0 when
\* word_count = 0 and both passcodes are empty when char_count = 0.
\* ------------------------------------------------------------------------
C16_LengthsAreTextLengths ==
    Generated =>
        /\ tkdata.pp_raw_len = Len(tkdata.phrase_raw)
        /\ tkdata.pp_plus_len = Len(tkdata.phrase_plus)
        /\ tkdata.pp_short_len = Len(tkdata.phrase_short)
        /\ tkdata.pc_any_len = Len(tkdata.pc_any)
        /\ tkdata.pc_any_len = call.numchars
        /\ tkdata.pc_some_len = Len(tkdata.pc_some)
        /\ tkdata.pc_some_len = call.numchars
        /\ call.numwords = 0 =>
              (tkdata.phrase_raw = << >> /\ tkdata.pp_raw_len = 0)
        /\ call.numchars = 0 =>
              (tkdata.pc_any = << >> /\ tkdata.pc_some = << >>)

C16_NothingAskedFor ==
    /\ Generated
    /\ call.numwords = 0
    /\ call.numchars = 0
    /\ tkdata.phrase_raw = << >>
    /\ tkdata.pc_any = << >>
    /\ tkdata.pp_plus_len = 3
    /\ call.unused = << "e" >>

\* ------------------------------------------------------------------------
\* C17.  Right after reset(), from whatever state it was called in, all
\* five result texts are empty, all five lengths are 0 and all five entropy
\* values are 0.
\* ------------------------------------------------------------------------
C17_ResetClearsAllResults ==
    call.op = "reset" =>
        \A k \in DOMAIN Results : Results[k] = << << >>, 0, 0 >>

\* ------------------------------------------------------------------------
\* C18.  In every state from the startup load on, tkdata['available'] is the
\* number of words now in word_list, after a reset, a reload and a make_pass
\* that failed as well.
\* ------------------------------------------------------------------------
C18_AvailableIsWordListSize ==
    tkdata.available = Len(listdata.word_list)

C18_FailedWithFewerWords ==
    /\ Failed
    /\ call.unused = << "e" >>
    /\ tkdata.available = 0
    /\ listdata.word_list = << >>
    /\ Len(Loaded[choose_wordlist].word_list) > 0

\* ------------------------------------------------------------------------
\* C19.  After a make_pass that returned with a non-empty, space-free
\* fragment f of one or several characters, f is not a substring of pc_any
\* or of pc_some, and the phrases are built of words that do not contain f.
\* ------------------------------------------------------------------------
C19_ExcludedFragmentAbsent ==
    (Generated /\ IsFragment(call.unused)) =>
        /\ ~Contains(call.unused, tkdata.pc_any)
        /\ ~Contains(call.unused, tkdata.pc_some)
        /\ MadeOf(tkdata.phrase_raw,
                  Range(Without(Loaded[choose_wordlist].word_list,
                                { call.unused })),
                  call.numwords)
        /\ MadeOf(SubSeq(tkdata.phrase_short, 1, Len(tkdata.phrase_short) - 3),
                  Range(Without(Loaded[choose_wordlist].short_list,
                                { call.unused })),
                  call.numwords)

\* ------------------------------------------------------------------------
\* C20.  From every reachable state, reset() called twice in a row leaves
\* the pools, the exclusion state and the values on display as reset()
\* called once leaves them.
\* ------------------------------------------------------------------------
C20_ResetIsIdempotent ==
    reset(reset(M)) = reset(M)

C20_ResetChangesState ==
    /\ Generated
    /\ call.unused = << "e" >>
    /\ Pools # Baseline(choose_wordlist)
    /\ tkdata.excluded # << >>
    /\ Len(tkdata.phrase_raw) > 0
    /\ reset(M) # M

\* The last handler loaded the word source: startup, a selection or reset().
Loading == call.op \in { "startup", "get_words", "reset" }

\* ------------------------------------------------------------------------
\* C21.  After get_words has loaded a source, word_list holds each token of
\* the source that is made of alphabetic characters only, once, and nothing
\* else, and short_list is the words of word_list shorter than 7 characters.
\* ------------------------------------------------------------------------
C21_LoadedWordsAlphabeticOnce ==
    Loading =>
        /\ Range(listdata.word_list) =
              { t \in Range(word_files(choose_wordlist)) :
                    Len(t) > 0 /\ \A i \in 1..Len(t) : t[i] \in AlphaChars }
        /\ \A i, j \in 1..Len(listdata.word_list) :
              listdata.word_list[i] = listdata.word_list[j] => i = j
        /\ LET Short(w) == Len(w) < 7
           IN  listdata.short_list = SelectSeq(listdata.word_list, Short)

C21_LoadedSourceWithRepeats ==
    /\ call.op = "get_words"
    /\ choose_wordlist = "EFF long wordlist"
    /\ Len(word_files(choose_wordlist)) = 5
    /\ Len(listdata.word_list) = 3
    /\ Len(listdata.short_list) = 2

\* ------------------------------------------------------------------------
\* C22.  With no exclusion active all_char has 94 distinct characters, so
\* that a passcode of 10 characters gets pc_any_h = 65, and symbols, digi and
\* caps have 13, 10 and 26 characters, so that the bonus triplet adds
\* exactly 11 bits to the entropy of the plain passphrase.
\* ------------------------------------------------------------------------
C22_BaselineSizesAndEntropy ==
    Pools = Baseline(choose_wordlist) =>
        /\ Len(strdata.all_char) = 94
        /\ Cardinality(Range(strdata.all_char)) = 94
        /\ Len(strdata.symbols) = 13
        /\ Len(strdata.digi) = 10
        /\ Len(strdata.caps) = 26
        /\ (Generated /\ call.numchars = 10) => tkdata.pc_any_h = 65
        /\ Generated => tkdata.pp_plus_h = tkdata.pp_raw_h + 11

C22_TenFromBaseline ==
    /\ Generated
    /\ Pools = Baseline(choose_wordlist)
    /\ call.numchars = 10
    /\ call.numwords = 1
    /\ Len(tkdata.pc_any) = 10
    /\ tkdata.pc_any_h = 65

\* ------------------------------------------------------------------------
\* C23.  Every unit of an output is a fresh draw from a cryptographically
\* strong source: whatever was drawn before, a make_pass call can draw any
\* unit of the pool.  Stated for one passcode character drawn from the
\* unfiltered all_char: each of its characters is a possible pc_any.
\* ------------------------------------------------------------------------
C23_EveryUnitCanBeDrawn ==
    \A u \in Range(BaseStrdata.all_char) :
        ENABLED ( /\ MakePass(<< "0" >>, << "1" >>, << >>)
                  /\ tkdata'.pc_any = u )

\* ------------------------------------------------------------------------
\* C27.  Every token on show in "Currently excluded" has been applied to
\* every pool: no unit of word_list, short_list, symbols, digi, caps,
\* all_char or some_char contains it.
\* ------------------------------------------------------------------------
C27_ShownTokensAppliedToEveryPool ==
    \A t \in Range(Split(tkdata.excluded)) :
        \A p \in SevenPools :
            \A u \in Range(Pools[p]) : ~Contains(t, u)

C27_TwoTokensShown ==
    /\ Generated
    /\ Range(Split(tkdata.excluded)) = { << "e" >>, << "E" >> }
    /\ Len(listdata.word_list) < Len(Loaded[choose_wordlist].word_list)
    /\ Len(strdata.caps) < Len(BaseStrdata.caps)

\* ------------------------------------------------------------------------
\* C28.  In every reachable state short_list is exactly the words of the
\* current word_list that are shorter than 7 letters, in the same order; in
\* particular every word of short_list is a word of word_list.
\* ------------------------------------------------------------------------
C28_ShortListIsShortWordsOfWordList ==
    /\ listdata.short_list = SelectSeq(listdata.word_list, IsShort)
    /\ Range(listdata.short_list) \subseteq Range(listdata.word_list)

C28_ShortListAfterExclusion ==
    /\ Excluding
    /\ IsFragment(call.unused)
    /\ Len(listdata.word_list) < Len(Loaded[choose_wordlist].word_list)
    /\ Len(listdata.short_list) < Len(Loaded[choose_wordlist].short_list)
    /\ Len(listdata.short_list) < Len(listdata.word_list)
    /\ listdata.short_list # << >>

\* ------------------------------------------------------------------------
\* C29.  The exclusion filter is idempotent and order-independent on the
\* pools: from every reachable state, two consecutive make_pass calls with
\* the same fragment leave the seven pools one call leaves, and make_pass
\* with f1 then with f2 leaves the seven pools that f2 then f1 leaves.
\* ------------------------------------------------------------------------

\* Fragments typed into the exclusion entry.
Fragments == { << "e" >>, << "s" >>, << "e", "s" >> }

\* The seven pools of a program state m.
PoolsOf(m) ==
    [ word_list  |-> m.listdata.word_list,
      short_list |-> m.listdata.short_list,
      symbols    |-> m.strdata.symbols,
      digi       |-> m.strdata.digi,
      caps       |-> m.strdata.caps,
      all_char   |-> m.strdata.all_char,
      some_char  |-> m.strdata.some_char ]

\* The state make_pass leaves when called on m with the fragment typed.
Excluded(m, fragment) ==
    Call(LAMBDA r : r.m,
         make_pass([ m EXCEPT !.numwords_entry = << "1" >>,
                              !.numchars_entry = << "1" >>,
                              !.exclude_entry = fragment ]))

C29_FilterIdempotentAndOrderIndependent ==
    \A f1 \in Fragments :
        \E once \in { Excluded(M, f1) } :
            /\ PoolsOf(Excluded(once, f1)) = PoolsOf(once)
            /\ \A f2 \in Fragments \ { f1 } :
                  PoolsOf(Excluded(once, f2))
                    = PoolsOf(Excluded(Excluded(M, f2), f1))

C29_SecondFragmentApplied ==
    /\ Excluding
    /\ applied = { << "e" >>, << "a", "e" >> }
    /\ PoolsOf(Excluded(M, << "s" >>)) # PoolsOf(M)
    /\ PoolsOf(M) # Baseline(choose_wordlist)

\* ------------------------------------------------------------------------
\* C30.  After any sequence of grow_font, shrink_font and default_font_size
\* calls from the sizes set_fonts leaves, the size of the text font and the
\* size of the result font are both within the platform's bounds
\* [sizemin, sizemax].
\* ------------------------------------------------------------------------
C30_FontSizesWithinBounds ==
    /\ fonts.text_font \in sizemin(MY_OS)..sizemax(MY_OS)
    /\ fonts.result_font \in sizemin(MY_OS)..sizemax(MY_OS)

\* ------------------------------------------------------------------------
\* C24.  Whatever the platform, the system dictionary's presence and the
\* wordlist files present, once check_files has run either the program has
\* exited, or every option that can be selected in choose_wordlist, the
\* default one that get_words loads at start-up included, names a file that
\* exists, so that no load fails for a missing file.
\* ------------------------------------------------------------------------
C24_SelectableOptionsHaveFiles ==
    files.at \in { "checked", "loaded", "crashed" } =>
        /\ \A o \in Selectable(files.box) :
              IsFile(wordfile(o), files.sysdict, files.present)
        /\ files.raised = "none"

\* ------------------------------------------------------------------------
\* C25.  Generator.make_pass of pygPassphrase.py takes an empty or non-digit
\* text in the word-count or the character-count entry for 0 and completes:
\* no exception, no words for such a word count, no characters for such a
\* character count.
\* ------------------------------------------------------------------------

\* An entry text that is empty or not made of digits.
NotANumber(text) == ~IsDigit(Strip(text))

C25_OddCountTextTakenAsZero ==
    (pyg.op = "make_pass"
       /\ (NotANumber(pyg.numwords_entry) \/ NotANumber(pyg.numchars_entry)))
    => /\ pyg.raised = "none"
       /\ NotANumber(pyg.numwords_entry) => pyg.phrase_any = << >>
       /\ NotANumber(pyg.numchars_entry) => pyg.pw_any = << >>

\* ------------------------------------------------------------------------
\* C26.  In pygPassphrase.py, whenever make_pass has completed: on Windows
\* the passphrases on display are made of words of the EFF list only; on
\* Linux and macOS they are made of EFF words exactly when the EFF checkbox
\* is selected or the system dictionary is missing, and of words of the
\* system dictionary otherwise; the placeholders 'None' and 'Null' of a file
\* that was not read are never the words of a passphrase on display.
\* ------------------------------------------------------------------------

\* make_pass ran last and returned.
PygGenerated == pyg.op = "make_pass" /\ pyg.raised = "none"

\* The words the two files supply once filtered, and their lower-case forms.
EffFileWords == Range(eff_words(EffTokens))

SystemFileWords == Range(uniq_words(SystemDictionaryTokens))

SystemFileTrimWords == Range(trim_words(SystemDictionaryTokens))

Lowered(words) == { Lower(w) : w \in words }

\* A passphrase with the symbol, the number and the capital removed.
WordsPart(passphrase) == SubSeq(passphrase, 1, Len(passphrase) - 3)

C26_PassphraseWordsFromTheRightList ==
    PygGenerated =>
        LET n      == IntOf(pyg.numwords_entry).value
            useEff == \/ MY_OS = Win
                      \/ MY_OS \in { Lin, Dar }
                           /\ (pyg.eff \/ ~pyg.SYSWORDS_PATH)
            any    == IF useEff THEN EffFileWords ELSE SystemFileWords
            select == IF useEff THEN EffFileWords ELSE SystemFileTrimWords
        IN  /\ MadeOf(pyg.phrase_any, any, n)
            /\ MadeOf(WordsPart(pyg.phrase_lc), Lowered(any), n)
            /\ pyg.phrase_select # << >> =>
                  MadeOf(WordsPart(pyg.phrase_select), Lowered(select), n)
            /\ n > 0 =>
                  /\ ~MadeOf(pyg.phrase_any, { None, Null }, n)
                  /\ ~MadeOf(WordsPart(pyg.phrase_lc),
                             Lowered({ None, Null }), n)
                  /\ pyg.phrase_select # << >> =>
                        ~MadeOf(WordsPart(pyg.phrase_select),
                                Lowered({ None, Null }), n)

C26_EffWordsForMissingDictionary ==
    /\ PygGenerated
    /\ MY_OS = Lin
    /\ ~pyg.SYSWORDS_PATH
    /\ ~pyg.eff
    /\ pyg.system_list = << Null >>
    /\ IntOf(pyg.numwords_entry).value = 2
    /\ Len(pyg.phrase_any) > 0
    /\ Len(pyg.phrase_select) > 3

====
